---- MODULE Spec2Model ----
(***************************************************************************)
(* kubenetbench/core/monitor.go: the monitor coordination and collection   *)
(* pipeline (copyStreamToFile, srvAddrForNode, DialMonitor,                *)
(* GetSysInfoNode, GetSysInfoNodes, startCollection, endCollection).       *)
(*                                                                         *)
(* The program is sequential: one goroutine runs the operations, so the    *)
(* model has one control position, pc.  Every call to a collaborator       *)
(* (cluster query, dial, remote call, stream receive, file open or write)  *)
(* is one step whose outcome the environment chooses.                      *)
(*                                                                         *)
(* Errors are sequences of strings, the wrap chain from the outermost      *)
(* message to the underlying cause; nil is the empty sequence.             *)
(***************************************************************************)
EXTENDS Integers, Sequences, FiniteSets, TLC

\* ------------------------------------------------------------ bounds
MaxNodes == 2
MaxPods == 2
MaxCalls == 2
MaxChunks == 2
MaxChunkLen == 2
MaxInitLen == 1
MaxFanoutLen == 1

\* ------------------------------------------------- program constants
monitorPort == 8451
retriesOrig == 10

\* -------------------------------------------------------- value sets
Nodes == 1..MaxNodes
Bytes == {"a", "b"}
NoNode == 0
nil == <<>>

SeqsUpTo(S, n) == UNION {[1..k -> S] : k \in 0..n}
Range(s) == {s[i] : i \in 1..Len(s)}
InjSeqs(S) == {s \in SeqsUpTo(S, Cardinality(S)) :
                 \A i, j \in 1..Len(s) : i # j => s[i] # s[j]}
Prefix(s, k) == [i \in 1..k |-> s[i]]

\* The payload of a pb.File chunk: any byte string, the empty one included.
Chunks == SeqsUpTo(Bytes, MaxChunkLen)

\* Local paths: <sessionDir>/<node>.sysinfo and <runDir>/perf-<node>.tar.bz2.
SysInfoPath(n) == <<"sysinfo", n>>
PerfPath(n) == <<"perf", n>>
Paths == {SysInfoPath(n) : n \in Nodes} \cup {PerfPath(n) : n \in Nodes}
NoPath == <<"none", NoNode>>
\* A host:port address; host "nodeip" stands for the IP of node `node`.
NoAddr == [host |-> "", node |-> NoNode, port |-> 0]
Absent == [ex |-> FALSE, data |-> <<>>]
\* ret while no operation has returned since the last call.
NoResult == [op |-> "none", err |-> <<>>]

VARIABLES
  pc,            \* control position of the one goroutine
  caller,        \* the function DialMonitor / copyStreamToFile returns to
  ncalls,        \* operations invoked so far on the run context
  portForward,   \* Session.portForward
  collectNodes,  \* RunBenchCtx.collectNodes (a slice)
  nodes,         \* startCollection: keys of the map not yet iterated
  idx,           \* endCollection / GetSysInfoNodes: loop index
  cur,           \* node of the current loop iteration
  lines,         \* GetSysInfoNodes: the node list, one name per line
  retries,       \* GetSysInfoNodes: remaining retries of the current node
  errstr,        \* GetSysInfoNodes: nodes named in the aggregate error
  callErr,       \* the error value last assigned by a call (err)
  conns,         \* open grpc connections (the deferred conn.Close stack)
  tunnels,       \* open port-forward tunnels under the current ctx
  srvAddr,       \* result of srvAddrForNode
  stream,        \* the FileReceiver handed to copyStreamToFile
  fname,         \* copyStreamToFile: target path
  fopen,         \* copyStreamToFile: the file handle f is open
  data,          \* copyStreamToFile: the chunk last received
  files,         \* local filesystem: path -> [ex, data]
  ret,           \* result of the operation called last, once it returned
  \* history (never read by the program)
  before,        \* file at the call of copyStreamToFile
  trace,         \* copyStreamToFile: events since the call
  discovered,    \* startCollection: node set of the pod listing
  attempted,     \* nodes DialMonitor was called for in this operation
  startAck,      \* nodes whose StartCollection call returned success
  retrieved,     \* endCollection: nodes GetCollectionResults was issued to
  nodeFailed,    \* endCollection: nodes whose retrieve or transfer failed
  calls,         \* GetSysInfoNodes: GetSysInfoNode invocations for cur
  fails,         \* GetSysInfoNodes: failed invocations for cur
  succeeded,     \* GetSysInfoNodes: nodes with an invocation that returned nil
  transferred,   \* .sysinfo paths a copyStreamToFile call returned nil for
  envLog,        \* calls made and errors met while resolving and dialing cur
  past           \* retried transfer: file at the first call, bytes the earlier
                 \* attempts wrote, number of attempts

progVars == <<pc, caller, ncalls, portForward, collectNodes, nodes, idx, cur,
              lines, retries, errstr, callErr, conns, tunnels, srvAddr,
              stream, fname, fopen, data, files, ret>>
histVars == <<before, trace, discovered, attempted, startAck, retrieved,
              nodeFailed, calls, fails, succeeded, transferred>>
auxHist == <<envLog, past>>
vars == <<progVars, histVars, auxHist>>

runVars == <<ncalls, portForward, collectNodes, nodes, idx, cur>>
sysVars == <<lines, retries, errstr>>
netVars == <<conns, tunnels, srvAddr>>
runHist == <<discovered, attempted, startAck, retrieved, nodeFailed>>
sysHist == <<calls, fails, succeeded>>

\* --------------------------------------------------------- initial state
InitCommon ==
  /\ ncalls = 0
  /\ collectNodes = <<>>
  /\ nodes = {}
  /\ idx = 0
  /\ cur = NoNode
  /\ lines = <<>>
  /\ retries = 0
  /\ errstr = <<>>
  /\ callErr = nil
  /\ conns = <<>>
  /\ tunnels = <<>>
  /\ srvAddr = NoAddr
  /\ stream = "none"
  /\ fopen = FALSE
  /\ data = <<>>
  /\ ret = NoResult
  /\ before = Absent
  /\ trace = <<>>
  /\ discovered = {}
  /\ attempted = {}
  /\ startAck = {}
  /\ retrieved = <<>>
  /\ nodeFailed = {}
  /\ calls = 0
  /\ fails = 0
  /\ succeeded = {}
  /\ transferred = {}
  /\ envLog = {}
  /\ past = [orig |-> Absent, written |-> <<>>, n |-> 0]

\* ===================================================== copyStreamToFile

\* Where copyStreamToFile returns to.
AfterCopy ==
  CASE caller = "ec" -> "ec_copied"
    [] caller = "gsn" -> "gsn_copied"
    [] OTHER -> "done"

\* Payloads and file size the specification at hand explores: a direct call
\* of copyStreamToFile draws every payload, a retried call payloads of one
\* and two bytes, a fan-out draws one-byte payloads and stops growing a file
\* at MaxFanoutLen.
ChunkChoices ==
  CASE caller = "test" -> Chunks
    [] caller = "retry" -> {<<"a">>, <<"a", "b">>}
    [] OTHER -> {<<"a">>}
FileCap == IF caller \in {"test", "retry"}
             THEN MaxInitLen + MaxCalls * MaxChunks * MaxChunkLen
             ELSE MaxFanoutLen

NumRecv == Cardinality({i \in 1..Len(trace) : trace[i].ev = "chunk"})

\* os.OpenFile(fname, O_CREATE|O_WRONLY|O_APPEND): creates, never truncates.
OpenFileTrunc(fs, p) == [fs EXCEPT ![p] = [ex |-> TRUE, data |-> <<>>]]
OpenFile(fs, p) == [fs EXCEPT ![p] = [ex |-> TRUE, data |-> @.data]]

\* f.Write(b) on an O_APPEND handle: n bytes of b go to the end of the file.
Write(fs, p, b, n) ==
  [fs EXCEPT ![p] = [ex |-> TRUE, data |-> @.data \o Prefix(b, n)]]

\* The byte counts f.Write can report together with an error.
ShortCounts(b) == {k \in 0..Len(b) : k < Len(b) \/ Len(b) = 0}

\* return e, with the deferred f.Close().
CopyReturnLeak(e) ==
  /\ callErr' = e
  /\ fopen' = (fopen /\ e # nil)
  /\ pc' = AfterCopy
  /\ transferred' = IF e = nil /\ caller = "gsn"
                    THEN transferred \cup {fname} ELSE transferred
CopyReturn(e) ==
  /\ callErr' = e
  /\ fopen' = FALSE
  /\ pc' = AfterCopy
  /\ transferred' = IF e = nil /\ caller = "gsn"
                    THEN transferred \cup {fname} ELSE transferred

copyOpen ==
  /\ pc = "cp_open"
  /\ \/ /\ files' = OpenFile(files, fname)
        /\ fopen' = TRUE
        /\ pc' = "cp_recv"
        /\ trace' = Append(trace, [ev |-> "open", c |-> <<>>, n |-> 0])
        /\ UNCHANGED <<callErr, transferred>>
     \/ /\ callErr' = <<"open failed">>
        /\ pc' = AfterCopy
        /\ trace' = Append(trace, [ev |-> "openErr", c |-> <<>>, n |-> 0])
        /\ UNCHANGED <<files, fopen, transferred>>
  /\ UNCHANGED <<caller, runVars, sysVars, netVars, stream, fname, data, ret,
                 before, runHist, sysHist>>
  /\ UNCHANGED auxHist

\* data, err := stream.Recv() and the two tests of err.
copyRecv ==
  /\ pc = "cp_recv"
  /\ stream = "live"
  /\ \/ /\ trace' = Append(trace, [ev |-> "eof", c |-> <<>>, n |-> 0])
        /\ CopyReturn(nil)
        /\ UNCHANGED data
     \/ /\ trace' = Append(trace, [ev |-> "recvErr", c |-> <<>>, n |-> 0])
        /\ CopyReturn(<<"io error", "recv failed">>)
        /\ UNCHANGED data
     \/ /\ NumRecv < MaxChunks
        /\ \E c \in ChunkChoices :
             /\ Len(files[fname].data) + Len(c) <= FileCap
             /\ data' = c
             /\ trace' = Append(trace, [ev |-> "chunk", c |-> c, n |-> 0])
        /\ pc' = "cp_write"
        /\ UNCHANGED <<callErr, fopen, transferred>>
  /\ UNCHANGED <<caller, runVars, sysVars, netVars, stream, fname, files, ret,
                 before, runHist, sysHist>>
  /\ UNCHANGED auxHist

\* _, err = f.Write(data.Data)
copyWriteIgnoreErr ==
  /\ pc = "cp_write"
  /\ \/ /\ files' = Write(files, fname, data, Len(data))
        /\ trace' = Append(trace, [ev |-> "write", c |-> data, n |-> Len(data)])
     \/ \E k \in ShortCounts(data) :
          /\ files' = Write(files, fname, data, k)
          /\ trace' = Append(trace, [ev |-> "writeErr", c |-> data, n |-> k])
  /\ pc' = "cp_recv"
  /\ UNCHANGED <<callErr, fopen, transferred>>
  /\ UNCHANGED <<caller, runVars, sysVars, netVars, stream, fname, data, ret,
                 before, runHist, sysHist>>
  /\ UNCHANGED auxHist
copyWrite ==
  /\ pc = "cp_write"
  /\ \/ /\ files' = Write(files, fname, data, Len(data))
        /\ trace' = Append(trace, [ev |-> "write", c |-> data, n |-> Len(data)])
        /\ pc' = "cp_recv"
        /\ UNCHANGED <<callErr, fopen, transferred>>
     \/ \E k \in ShortCounts(data) :
          /\ files' = Write(files, fname, data, k)
          /\ trace' = Append(trace, [ev |-> "writeErr", c |-> data, n |-> k])
          /\ CopyReturn(<<"Error writing data", "write failed">>)
  /\ UNCHANGED <<caller, runVars, sysVars, netVars, stream, fname, data, ret,
                 before, runHist, sysHist>>
  /\ UNCHANGED auxHist

\* A direct call copyStreamToFile(fname, stream) with a live stream.
copyStreamToFile ==
  /\ pc = "idle"
  /\ caller = "test"
  /\ pc' = "cp_open"
  /\ stream' = "live"
  /\ before' = files[fname]
  /\ trace' = <<>>
  /\ UNCHANGED <<caller, runVars, sysVars, netVars, fname, fopen, data, files,
                 callErr, ret, discovered, attempted, startAck, retrieved,
                 nodeFailed, sysHist, transferred>>
  /\ UNCHANGED auxHist

InitCopy ==
  /\ InitCommon
  /\ pc = "idle"
  /\ caller = "test"
  /\ portForward = FALSE
  /\ \E p \in {SysInfoPath(1), PerfPath(1)}, f \in {Absent} \cup
                  {[ex |-> TRUE, data |-> d] : d \in SeqsUpTo(Bytes, MaxInitLen)} :
       /\ fname = p
       /\ files = [q \in Paths |-> IF q = p THEN f ELSE Absent]

NextCopy == copyStreamToFile \/ copyOpen \/ copyRecv \/ copyWrite

CopySpec == InitCopy /\ [][NextCopy]_vars

\* The bytes the write events of a trace report as written.
RECURSIVE Written(_)
Written(tr) ==
  IF tr = <<>> THEN <<>>
  ELSE (IF Head(tr).ev \in {"write", "writeErr"}
          THEN Prefix(Head(tr).c, Head(tr).n) ELSE <<>>) \o Written(Tail(tr))

\* The retry loop of GetSysInfoNodes seen from one file: copyStreamToFile is
\* called on the same path again after a call that returned an error.
copyRetry ==
  /\ caller = "retry"
  /\ \/ /\ pc = "idle"
        /\ past' = [orig |-> files[fname], written |-> <<>>, n |-> 1]
     \/ /\ pc = "done"
        /\ callErr # nil
        /\ past.n < MaxCalls
        /\ past' = [past EXCEPT !.written = @ \o Written(trace), !.n = @ + 1]
  /\ pc' = "cp_open"
  /\ stream' = "live"
  /\ callErr' = nil
  /\ before' = files[fname]
  /\ trace' = <<>>
  /\ UNCHANGED <<caller, runVars, sysVars, netVars, fname, fopen, data, files,
                 ret, discovered, attempted, startAck, retrieved, nodeFailed,
                 sysHist, transferred, envLog>>

InitRetry ==
  /\ InitCommon
  /\ pc = "idle"
  /\ caller = "retry"
  /\ portForward = FALSE
  /\ fname = SysInfoPath(1)
  /\ \E f \in {Absent} \cup
               {[ex |-> TRUE, data |-> d] : d \in SeqsUpTo({"b"}, MaxInitLen)} :
       files = [q \in Paths |-> IF q = fname THEN f ELSE Absent]

NextRetry == copyRetry \/ copyOpen \/ copyRecv \/ copyWrite

RetrySpec == InitRetry /\ [][NextRetry]_vars

\* ============================================ srvAddrForNode, DialMonitor

\* Where DialMonitor returns to.
AfterDial ==
  CASE caller = "sc" -> "sc_dialed"
    [] caller = "ec" -> "ec_dialed"
    [] OTHER -> "gsn_dialed"

\* net.JoinHostPort(host, port)
JoinHostPortFixed(h, n, p) == [host |-> h, node |-> n, port |-> monitorPort]

JoinHostPort(h, n, p) == [host |-> h, node |-> n, port |-> p]

\* The local port KubePortForward reports for the tunnel to node n's pod.
LocalPort(n) == monitorPort + n

\* if err != nil { return "failed to obtain monitor address" } in DialMonitor:
\* an error of srvAddrForNode returns to the caller, no error goes on to dial.
AfterResolveIgnoreErr(e) == "dial"

AfterResolve(e) == IF e # nil THEN AfterDial ELSE "dial"

\* DialMonitor's first half: srvAddrForNode and the test of its error. envLog
\* records the cluster helpers called and the ones that failed.
srvAddrForNode ==
  /\ pc = "resolve"
  /\ \/ /\ ~portForward
        /\ srvAddr' = JoinHostPort("nodeip", cur, monitorPort)
        /\ envLog' = envLog \cup {"KubeGetNodeIP"}
        /\ pc' = AfterResolve(nil)
        /\ UNCHANGED <<callErr, tunnels>>
     \/ /\ ~portForward
        /\ callErr' = <<"failed to obtain monitor address", "no node ip">>
        /\ envLog' = envLog \cup {"KubeGetNodeIP", "KubeGetNodeIP:err"}
        /\ pc' = AfterResolve(callErr')
        /\ UNCHANGED <<srvAddr, tunnels>>
     \/ /\ portForward
        /\ callErr' = <<"failed to obtain monitor address", "no monitor pod">>
        /\ envLog' = envLog \cup {"KubeGetPodForNode", "KubeGetPodForNode:err"}
        /\ pc' = AfterResolve(callErr')
        /\ UNCHANGED <<srvAddr, tunnels>>
     \/ /\ portForward
        /\ callErr' = <<"failed to obtain monitor address", "port forward failed">>
        /\ envLog' = envLog \cup {"KubeGetPodForNode", "KubePortForward",
                                  "KubePortForward:err"}
        /\ pc' = AfterResolve(callErr')
        /\ UNCHANGED <<srvAddr, tunnels>>
     \/ /\ portForward
        /\ tunnels' = Append(tunnels, cur)
        /\ srvAddr' = JoinHostPort("localhost", NoNode, LocalPort(cur))
        /\ envLog' = envLog \cup {"KubeGetPodForNode", "KubePortForward"}
        /\ pc' = AfterResolve(nil)
        /\ UNCHANGED callErr
  /\ UNCHANGED <<caller, runVars, sysVars, conns, stream, fname, fopen, data,
                 files, ret, histVars>>
  /\ UNCHANGED past

\* DialMonitor's second half: grpc.Dial(srvAddr) and the test of its error.
DialMonitor ==
  /\ pc = "dial"
  /\ \/ /\ conns' = Append(conns, cur)
        /\ callErr' = nil
     \/ /\ callErr' = <<"failed to connect to monitor", "dial failed">>
        /\ UNCHANGED conns
  /\ pc' = AfterDial
  /\ UNCHANGED <<caller, runVars, sysVars, tunnels, srvAddr, stream, fname,
                 fopen, data, files, ret, histVars>>
  /\ envLog' = envLog \cup (IF callErr' = nil THEN {"grpc.Dial"}
                                             ELSE {"grpc.Dial", "grpc.Dial:err"})
  /\ UNCHANGED past

\* ================================================ startCollection

\* The deferred conn.Close() calls run at the return of the function: one per
\* connection dialed, the ones deferred inside the loop included.
CloseOnlyLast(cs) == SubSeq(cs, 1, Len(cs) - 1)

CloseDeferred(cs) == <<>>

\* cancel() of the context KubePortForward was given: every tunnel started
\* under it is torn down.
CancelCtxKeep(ts) == ts

CancelCtx(ts) == <<>>

\* return e from startCollection or endCollection: the deferred conn.Close()
\* of every iteration and the deferred cancel() run.
RunReturn(op, e) ==
  /\ ret' = [op |-> op, err |-> e]
  /\ pc' = "idle"
  /\ caller' = "none"
  /\ conns' = CloseDeferred(conns)
  /\ tunnels' = CancelCtx(tunnels)
  /\ srvAddr' = NoAddr
  /\ callErr' = nil
  /\ cur' = NoNode
  /\ nodes' = {}
  /\ idx' = 0

startCollection ==
  /\ pc = "idle"
  /\ ncalls < MaxCalls
  /\ ncalls' = ncalls + 1
  /\ pc' = "sc_pods"
  /\ caller' = "sc"
  /\ ret' = NoResult
  /\ discovered' = {}
  /\ attempted' = {}
  /\ retrieved' = <<>>
  /\ nodeFailed' = {}
  /\ UNCHANGED <<portForward, collectNodes, nodes, idx, cur, sysVars, netVars,
                 callErr, stream, fname, fopen, data, files, before, trace,
                 startAck, sysHist, transferred>>
  /\ envLog' = {}
  /\ UNCHANGED past

\* r.KubeGetPods__(labels) and the map of distinct node names.
scGetPodsIgnoreErr ==
  /\ pc = "sc_pods"
  /\ \/ /\ nodes' = {}
        /\ envLog' = {"KubeGetPods:err"}
        /\ UNCHANGED discovered
     \/ \E podsinfo \in SeqsUpTo(Nodes, MaxPods) :
          /\ nodes' = Range(podsinfo)
          /\ discovered' = Range(podsinfo)
          /\ UNCHANGED envLog
  /\ pc' = "sc_loop"
  /\ UNCHANGED <<caller, idx, cur, netVars, callErr, ret>>
  /\ UNCHANGED <<ncalls, portForward, collectNodes, sysVars, stream, fname,
                 fopen, data, files, before, trace, attempted, startAck,
                 retrieved, nodeFailed, sysHist, transferred>>
  /\ UNCHANGED past

scGetPods ==
  /\ pc = "sc_pods"
  /\ \/ /\ RunReturn("sc", <<"pod listing failed">>)
        /\ UNCHANGED discovered
     \/ \E podsinfo \in SeqsUpTo(Nodes, MaxPods) :
          /\ nodes' = Range(podsinfo)
          /\ discovered' = Range(podsinfo)
          /\ pc' = "sc_loop"
          /\ UNCHANGED <<caller, idx, cur, netVars, callErr, ret>>
  /\ UNCHANGED <<ncalls, portForward, collectNodes, sysVars, stream, fname,
                 fopen, data, files, before, trace, attempted, startAck,
                 retrieved, nodeFailed, sysHist, transferred>>
  /\ envLog' = IF pc' = "idle" THEN {"KubeGetPods:err"} ELSE envLog
  /\ UNCHANGED past

\* for node := range nodes: the next key in map order, or the end of the loop.
scLoop ==
  /\ pc = "sc_loop"
  /\ \/ /\ nodes = {}
        /\ RunReturn("sc", nil)
        /\ UNCHANGED attempted
     \/ \E n \in nodes :
          /\ cur' = n
          /\ nodes' = nodes \ {n}
          /\ attempted' = attempted \cup {n}
          /\ pc' = "resolve"
          /\ UNCHANGED <<caller, idx, netVars, callErr, ret>>
  /\ UNCHANGED <<ncalls, portForward, collectNodes, sysVars, stream, fname,
                 fopen, data, files, before, trace, discovered, startAck,
                 retrieved, nodeFailed, sysHist, transferred>>
  /\ UNCHANGED auxHist

\* if err != nil { return err } after DialMonitor.
scDialed ==
  /\ pc = "sc_dialed"
  /\ IF callErr # nil
       THEN RunReturn("sc", callErr)
       ELSE /\ pc' = "sc_rpc"
            /\ UNCHANGED <<caller, nodes, idx, cur, netVars, callErr, ret>>
  /\ UNCHANGED <<ncalls, portForward, collectNodes, sysVars, stream, fname,
                 fopen, data, files, histVars>>
  /\ envLog' = {}
  /\ UNCHANGED past

\* The branch on the error of cli.StartCollection.
RecordStartAlways(cn, n, e) == Append(cn, n)
RecordStart(cn, n, e) == IF e = nil THEN Append(cn, n) ELSE cn

scStartCollection ==
  /\ pc = "sc_rpc"
  /\ \E e \in {nil, <<"StartCollection failed">>} :
       /\ callErr' = e
       /\ startAck' = IF e = nil THEN startAck \cup {cur} ELSE startAck
       /\ collectNodes' = RecordStart(collectNodes, cur, e)
  /\ pc' = "sc_loop"
  /\ UNCHANGED <<caller, ncalls, portForward, nodes, idx, cur, sysVars,
                 netVars, stream, fname, fopen, data, files, ret, before,
                 trace, discovered, attempted, retrieved, nodeFailed, sysHist,
                 transferred>>
  /\ UNCHANGED auxHist

\* ================================================== endCollection

endCollection ==
  /\ pc = "idle"
  /\ ncalls < MaxCalls
  /\ ncalls' = ncalls + 1
  /\ pc' = "ec_loop"
  /\ caller' = "ec"
  /\ idx' = 1
  /\ ret' = NoResult
  /\ discovered' = {}
  /\ attempted' = {}
  /\ retrieved' = <<>>
  /\ nodeFailed' = {}
  /\ UNCHANGED <<portForward, collectNodes, nodes, cur, sysVars, netVars,
                 callErr, stream, fname, fopen, data, files, before, trace,
                 startAck, sysHist, transferred>>
  /\ envLog' = {}
  /\ UNCHANGED past

\* for _, node := range r.collectNodes, and return err (the function's own
\* err, which no statement of the loop assigns) after the last node.
ecLoop ==
  /\ pc = "ec_loop"
  /\ \/ /\ idx > Len(collectNodes)
        /\ RunReturn("ec", nil)
        /\ UNCHANGED attempted
     \/ /\ idx <= Len(collectNodes)
        /\ cur' = collectNodes[idx]
        /\ attempted' = attempted \cup {collectNodes[idx]}
        /\ pc' = "resolve"
        /\ UNCHANGED <<caller, nodes, idx, netVars, callErr, ret>>
  /\ UNCHANGED <<ncalls, portForward, collectNodes, sysVars, stream, fname,
                 fopen, data, files, before, trace, discovered, startAck,
                 retrieved, nodeFailed, sysHist, transferred>>
  /\ UNCHANGED auxHist

\* if err != nil { return err } after DialMonitor.
ecDialed ==
  /\ pc = "ec_dialed"
  /\ IF callErr # nil
       THEN RunReturn("ec", callErr)
       ELSE /\ pc' = "ec_rpc"
            /\ UNCHANGED <<caller, nodes, idx, cur, netVars, callErr, ret>>
  /\ UNCHANGED <<ncalls, portForward, collectNodes, sysVars, stream, fname,
                 fopen, data, files, histVars>>
  /\ envLog' = {}
  /\ UNCHANGED past

\* cli.GetCollectionResults: an error is logged and the stream it returned
\* with the error (nil) is handed to copyStreamToFile all the same.
ecGetCollectionResults ==
  /\ pc = "ec_rpc"
  /\ retrieved' = Append(retrieved, cur)
  /\ \/ /\ stream' = "live"
        /\ callErr' = nil
        /\ UNCHANGED nodeFailed
     \/ /\ stream' = "nil"
        /\ callErr' = <<"GetCollectionResults failed">>
        /\ nodeFailed' = nodeFailed \cup {cur}
  /\ fname' = PerfPath(cur)
  /\ before' = files[PerfPath(cur)]
  /\ trace' = <<>>
  /\ pc' = "cp_open"
  /\ UNCHANGED <<caller, runVars, sysVars, netVars, fopen, data, files, ret,
                 discovered, attempted, startAck, sysHist, transferred>>
  /\ UNCHANGED auxHist

\* stream.Recv() on the nil stream: a nil dereference.  The panic unwinds
\* copyStreamToFile and endCollection, running their deferred calls, and ends
\* the process.
copyRecvNil ==
  /\ pc = "cp_recv"
  /\ stream = "nil"
  /\ pc' = "panic"
  /\ fopen' = FALSE
  /\ conns' = CloseDeferred(conns)
  /\ tunnels' = CancelCtx(tunnels)
  /\ trace' = Append(trace, [ev |-> "panic", c |-> <<>>, n |-> 0])
  /\ UNCHANGED <<caller, runVars, sysVars, srvAddr, callErr, stream, fname,
                 data, files, ret, before, runHist, sysHist, transferred>>
  /\ UNCHANGED auxHist

\* The branch on the error of copyStreamToFile, and the end of the iteration.
ecCopied ==
  /\ pc = "ec_copied"
  /\ nodeFailed' = IF callErr # nil THEN nodeFailed \cup {cur} ELSE nodeFailed
  /\ idx' = idx + 1
  /\ pc' = "ec_loop"
  /\ stream' = "none"
  /\ fname' = NoPath
  /\ data' = <<>>
  /\ before' = Absent
  /\ trace' = <<>>
  /\ callErr' = nil
  /\ UNCHANGED <<caller, ncalls, portForward, collectNodes, nodes, cur,
                 sysVars, netVars, fopen, files, ret, discovered, attempted,
                 startAck, retrieved, sysHist, transferred>>
  /\ UNCHANGED auxHist

Init ==
  /\ InitCommon
  /\ pc = "idle"
  /\ portForward \in BOOLEAN
  /\ caller = "none"
  /\ fname = NoPath
  /\ files = [q \in Paths |-> Absent]

Next ==
  \/ startCollection \/ scGetPods \/ scLoop \/ scDialed \/ scStartCollection
  \/ endCollection \/ ecLoop \/ ecDialed \/ ecGetCollectionResults \/ ecCopied
  \/ srvAddrForNode \/ DialMonitor
  \/ copyOpen \/ copyRecv \/ copyRecvNil \/ copyWrite

Spec == Init /\ [][Next]_vars

\* ======================================= GetSysInfoNode, GetSysInfoNodes

GetSysInfoNodes ==
  /\ pc = "idle"
  /\ ret.op = "none"
  /\ pc' = "gs_list"
  /\ UNCHANGED <<caller, runVars, sysVars, netVars, callErr, stream, fname,
                 fopen, data, files, ret, histVars>>
  /\ envLog' = {}
  /\ UNCHANGED past

\* lines, err := KubeGetNodesAndIps(): one line per node of the cluster, each
\* of two fields (a line of any other shape ends the process in log.Fatal).
gsList ==
  /\ pc = "gs_list"
  /\ \/ /\ ret' = [op |-> "gs", err |-> <<"node listing failed">>]
        /\ pc' = "done"
        /\ UNCHANGED <<lines, idx>>
     \/ \E l \in InjSeqs(Nodes) :
          /\ lines' = l
          /\ idx' = 1
          /\ pc' = "gs_next"
          /\ UNCHANGED ret
  /\ UNCHANGED <<caller, ncalls, portForward, collectNodes, nodes, cur,
                 retries, errstr, netVars, callErr, stream, fname, fopen,
                 data, files, histVars>>
  /\ envLog' = IF pc' = "done" THEN {"KubeGetNodesAndIps:err"} ELSE envLog
  /\ UNCHANGED past

\* The aggregate result: nil for an empty errstr, else one error holding it.
AggregateError(es) ==
  IF Len(es) = 0 THEN nil ELSE <<"GetSysInfoNodes() failed">> \o es

\* for _, line := range lines, retries := retriesOrig, and the final return.
gsNext ==
  /\ pc = "gs_next"
  /\ \/ /\ idx > Len(lines)
        /\ ret' = [op |-> "gs", err |-> AggregateError(errstr)]
        /\ pc' = "done"
        /\ cur' = NoNode
        /\ UNCHANGED retries
     \/ /\ idx <= Len(lines)
        /\ cur' = lines[idx]
        /\ retries' = retriesOrig
        /\ pc' = "gs_call"
        /\ UNCHANGED ret
  /\ calls' = 0
  /\ fails' = 0
  /\ UNCHANGED <<caller, ncalls, portForward, collectNodes, nodes, idx, lines,
                 errstr, netVars, callErr, stream, fname, fopen, data, files,
                 before, trace, runHist, succeeded, transferred>>
  /\ UNCHANGED auxHist

\* err = s.GetSysInfoNode(node_name, node_ip): the call, up to DialMonitor.
GetSysInfoNode ==
  /\ pc = "gs_call"
  /\ calls' = calls + 1
  /\ attempted' = attempted \cup {cur}
  /\ caller' = "gsn"
  /\ pc' = "resolve"
  /\ UNCHANGED <<runVars, sysVars, netVars, callErr, stream, fname, fopen,
                 data, files, ret, before, trace, discovered, startAck,
                 retrieved, nodeFailed, fails, succeeded, transferred>>
  /\ UNCHANGED auxHist

\* return e from GetSysInfoNode: the deferred conn.Close() and cancel() run.
GsnReturn(e) ==
  /\ callErr' = e
  /\ pc' = "gs_check"
  /\ caller' = "none"
  /\ conns' = CloseDeferred(conns)
  /\ tunnels' = CancelCtx(tunnels)
  /\ srvAddr' = NoAddr
  /\ stream' = "none"
  /\ fname' = NoPath
  /\ data' = <<>>
  /\ before' = Absent
  /\ trace' = <<>>
  /\ fails' = IF e # nil THEN fails + 1 ELSE fails
  /\ succeeded' = IF e = nil THEN succeeded \cup {cur} ELSE succeeded

\* if err != nil { return err } after DialMonitor.
gsnDialed ==
  /\ pc = "gsn_dialed"
  /\ IF callErr # nil
       THEN GsnReturn(callErr)
       ELSE /\ pc' = "gsn_rpc"
            /\ UNCHANGED <<caller, netVars, callErr, stream, fname, data,
                           before, trace, fails, succeeded>>
  /\ UNCHANGED <<runVars, sysVars, fopen, files, ret, runHist, calls,
                 transferred>>
  /\ envLog' = {}
  /\ UNCHANGED past

\* stream, err := cli.GetSysInfo(ctx, &pb.Empty{}) and the call of
\* copyStreamToFile(fname, stream).
gsnGetSysInfo ==
  /\ pc = "gsn_rpc"
  /\ \/ GsnReturn(<<"failed to retrieve sysinfo from monitor", "GetSysInfo failed">>)
     \/ /\ stream' = "live"
        /\ fname' = SysInfoPath(cur)
        /\ before' = files[SysInfoPath(cur)]
        /\ trace' = <<>>
        /\ pc' = "cp_open"
        /\ UNCHANGED <<caller, netVars, callErr, data, fails, succeeded>>
  /\ UNCHANGED <<runVars, sysVars, fopen, files, ret, runHist, calls,
                 transferred>>
  /\ UNCHANGED auxHist

\* return copyStreamToFile(fname, stream)
gsnCopied ==
  /\ pc = "gsn_copied"
  /\ GsnReturn(callErr)
  /\ UNCHANGED <<runVars, sysVars, fopen, files, ret, runHist, calls,
                 transferred>>
  /\ UNCHANGED auxHist

\* The retry loop's decision on err and retries.
AfterCallNoBreak(e, r) == IF r = 0 THEN "giveup" ELSE "retry"
AfterCallOffByOne(e, r) ==
  IF e = nil THEN "break" ELSE IF r < 0 THEN "giveup" ELSE "retry"
AfterCall(e, r) ==
  IF e = nil THEN "break" ELSE IF r = 0 THEN "giveup" ELSE "retry"

\* errstr = errstr + "\n" + err, err naming node_name.
RecordFailureDropped(es, n) == es
RecordFailure(es, n) == Append(es, n)

\* if err == nil { break }; if retries == 0 { ...; break }; retries--; Sleep.
gsCheck ==
  /\ pc = "gs_check"
  /\ LET d == AfterCall(callErr, retries) IN
       /\ errstr' = IF d = "giveup" THEN RecordFailure(errstr, cur) ELSE errstr
       /\ retries' = IF d = "retry" THEN retries - 1 ELSE retries
       /\ idx' = IF d = "retry" THEN idx ELSE idx + 1
       /\ pc' = IF d = "retry" THEN "gs_call" ELSE "gs_next"
  /\ callErr' = nil
  /\ UNCHANGED <<caller, ncalls, portForward, collectNodes, nodes, cur, lines,
                 netVars, stream, fname, fopen, data, files, ret, histVars>>
  /\ UNCHANGED auxHist

NextSys ==
  \/ GetSysInfoNodes \/ gsList \/ gsNext \/ GetSysInfoNode
  \/ gsnDialed \/ gsnGetSysInfo \/ gsnCopied \/ gsCheck
  \/ srvAddrForNode \/ DialMonitor
  \/ copyOpen \/ copyRecv \/ copyWrite

SysSpec == Init /\ [][NextSys]_vars

\* Every fan-out of the package: the run controller's and the sysinfo one.
FanoutSpec == Init /\ [][Next \/ NextSys]_vars

\* ====================================================== properties

ScDone == pc = "idle" /\ ret.op = "sc"
EcDone == pc = "idle" /\ ret.op = "ec"
GsDone == pc = "done" /\ ret.op = "gs"
CopyDone == pc \in {"done", "ec_copied", "gsn_copied"} /\ trace # <<>>

\* ---- the run controller (Spec)

\* C1: a node is in collectNodes only if a StartCollection call to its agent
\* returned success; a node whose resolve, connect or start call failed is
\* not added by that attempt.
C1_ParticipantsAcked == Range(collectNodes) \subseteq startAck

\* C1 witness: startCollection has returned with one node in collectNodes
\* and another node that was attempted, failed and stayed out.
C1_Witness ==
  /\ ScDone
  /\ collectNodes # <<>>
  /\ attempted \ Range(collectNodes) # {}

\* C2 (as claimed): once endCollection has returned, it has tried every node
\* whose start call succeeded and has issued the retrieve-results call to no
\* other node.
C2_EndContactsAcked ==
  EcDone => /\ attempted = startAck
            /\ Range(retrieved) \subseteq startAck

\* C3 (as claimed): once startCollection has returned after a successful pod
\* listing, every discovered node has been attempted, whatever failed on the
\* nodes before it.
C3_StartAttemptsAll == ScDone => attempted = discovered

\* C4 (as claimed): once endCollection has returned, its result is an error
\* whenever a node's retrieve call or stream transfer failed.
C4_EndReportsFailures == EcDone /\ nodeFailed # {} => ret.err # nil

\* ---- the sysinfo collection (SysSpec)

ListFailed == ret.err = <<"node listing failed">>

\* C5: GetSysInfoNodes attempts every listed node, its result names exactly
\* the nodes F none of whose calls returned nil, once each, in one error (nil
\* when F is empty), and every other node has its .sysinfo transfer completed.
C5_AggregateNamesFailed ==
  GsDone /\ ~ListFailed =>
    LET F == Range(lines) \ succeeded IN
      /\ attempted = Range(lines)
      /\ (ret.err = nil) <=> (F = {})
      /\ ret.err # nil => /\ Head(ret.err) = "GetSysInfoNodes() failed"
                          /\ Range(Tail(ret.err)) = F
                          /\ Len(Tail(ret.err)) = Cardinality(F)
      /\ \A n \in Range(lines) \ F :
           /\ SysInfoPath(n) \in transferred
           /\ files[SysInfoPath(n)].ex

\* C5 witness: the run is over, one node failed for good and is the only one
\* named, another node succeeded.
C5_Witness ==
  /\ GsDone
  /\ Len(lines) = 2
  /\ Len(errstr) = 1
  /\ Cardinality(succeeded) = 1

\* C6 (as claimed): a node is called at most 10 times in total.
C6_AtMostTenCalls == calls <= retriesOrig

\* C6 (amended): a node is called at most 11 times in total, the first call
\* and 10 retries; it is recorded as a permanent failure after exactly 11
\* failed calls, and the loop then moves on without calling it again.
C6_AtMostElevenCalls ==
  /\ calls <= retriesOrig + 1
  /\ cur # NoNode /\ cur \in Range(errstr) =>
       /\ calls = retriesOrig + 1
       /\ fails = retriesOrig + 1
       /\ pc = "gs_next"

\* C6 witness: the current node has just been recorded as a permanent
\* failure.
C6_Witness ==
  /\ cur # NoNode
  /\ cur \in Range(errstr)
  /\ calls = retriesOrig + 1

\* C7: a node whose call fails k < 10 times and then succeeds has been called
\* exactly k+1 times, is not called again and is not named in errstr.
C7_SuccessStopsRetry ==
  cur # NoNode /\ cur \in succeeded /\ fails < retriesOrig =>
    /\ calls = fails + 1
    /\ pc \in {"gs_check", "gs_next"}
    /\ cur \notin Range(errstr)

\* C7 witness: the call failed twice, then succeeded: three invocations, and
\* the loop has moved past the node.
C7_Witness ==
  /\ cur # NoNode
  /\ cur \in succeeded
  /\ fails = 2
  /\ calls = 3
  /\ pc = "gs_next"

\* ---- copyStreamToFile (CopySpec)

RECURSIVE Flatten(_)
Flatten(ss) == IF ss = <<>> THEN <<>> ELSE Head(ss) \o Flatten(Tail(ss))

TraceOf(evs) == SelectSeq(trace, LAMBDA e : e.ev \in evs)
Received == [i \in 1..Len(TraceOf({"chunk"})) |-> TraceOf({"chunk"})[i].c]
LastEv == trace[Len(trace)]
Opened == TraceOf({"open"}) # <<>>

\* C8 (as claimed): when copyStreamToFile returns, having opened the file,
\* the file exists and holds its content before the call followed by the
\* payloads of all chunks received.
C8_AllReceivedAppended ==
  CopyDone /\ Opened =>
    /\ files[fname].ex
    /\ files[fname].data = before.data \o Flatten(Received)

\* C8 (amended): when copyStreamToFile returns after opening the file, the
\* file exists and holds its content before the call followed by the payloads
\* of the chunks received, in receive order, where the chunk whose write
\* failed (the last one received, if any write failed) contributes only the
\* bytes that write reported as written; when the open fails the file is as
\* it was before the call.
C8_WrittenAppended ==
  CopyDone =>
    IF ~Opened THEN files[fname] = before
    ELSE /\ files[fname].ex
         /\ files[fname].data =
              IF LastEv.ev = "writeErr"
                THEN before.data
                       \o Flatten(Prefix(Received, Len(Received) - 1))
                       \o Prefix(Received[Len(Received)], LastEv.n)
                ELSE before.data \o Flatten(Received)

\* C8 witness: a call on a file with content has returned after one chunk was
\* written in full and the write of a second one failed halfway.
C8_Witness ==
  /\ CopyDone
  /\ before.data # <<>>
  /\ Len(Received) = 2
  /\ Received[1] # Received[2]
  /\ LastEv.ev = "writeErr"
  /\ LastEv.n = 1

\* C9: copyStreamToFile returns nil exactly when the stream signalled
\* end-of-data; an open, receive or write error is the last event of the call
\* (nothing is received or written after it) and is returned with its cause.
C9_ErrorsStopTransfer ==
  /\ \A i \in 1..Len(trace) :
       trace[i].ev \in {"openErr", "recvErr", "writeErr", "eof"} =>
         i = Len(trace) /\ CopyDone
  /\ CopyDone =>
       /\ (callErr = nil) <=> (LastEv.ev = "eof")
       /\ LastEv.ev = "eof" => TraceOf({"writeErr"}) = <<>>
       /\ LastEv.ev = "recvErr" => callErr = <<"io error", "recv failed">>
       /\ LastEv.ev = "writeErr" =>
            callErr = <<"Error writing data", "write failed">>

\* C9 witness: a call has returned the write error of its second chunk.
C9_Witness ==
  /\ CopyDone
  /\ LastEv.ev = "writeErr"
  /\ Len(TraceOf({"write"})) = 1
  /\ callErr # nil

\* C10: the file handle is open only between the open and the return of
\* copyStreamToFile: on every exit path it is closed.
C10_HandleClosedOnExit ==
  /\ pc \notin {"cp_recv", "cp_write"} => ~fopen
  /\ pc \in {"cp_recv", "cp_write"} => fopen

\* C10 witness: a call that opened the file has returned an error.
C10_Witness ==
  /\ CopyDone
  /\ Opened
  /\ callErr # nil
  /\ ~fopen

\* ---- connections and tunnels (FanoutSpec, Spec)

\* No operation is running: none was called yet, or the last one returned
\* (GetSysInfoNode returns to the retry loop of GetSysInfoNodes).
NoOpRunning ==
  pc \in {"idle", "done", "panic", "gs_list", "gs_next", "gs_call", "gs_check"}

\* C11: every connection DialMonitor established inside GetSysInfoNode,
\* startCollection or endCollection is closed once that operation has
\* returned, whatever the exit path: no connection outlives its operation.
C11_ConnsClosedOnReturn == NoOpRunning => conns = <<>>

\* C11 witness: startCollection has returned the error of a later node after
\* the connection to an earlier node had been established and used.
C11_Witness ==
  /\ ScDone
  /\ ret.err # nil
  /\ collectNodes # <<>>
  /\ ncalls = 1
  /\ conns = <<>>

ResolveFailed ==
  envLog \cap {"KubeGetNodeIP:err", "KubeGetPodForNode:err",
               "KubePortForward:err"} # {}

\* C13: when address resolution fails for a node (no node IP; no monitor pod
\* or a failed tunnel), DialMonitor returns an error for that node and
\* grpc.Dial is not called; when no pod matches, KubePortForward is not
\* called either and no tunnel is added.
C13_ResolveErrorNoDial ==
  ResolveFailed =>
    /\ pc = AfterDial
    /\ callErr # nil
    /\ Head(callErr) = "failed to obtain monitor address"
    /\ "grpc.Dial" \notin envLog
    /\ "KubeGetPodForNode:err" \in envLog =>
         /\ "KubePortForward" \notin envLog
         /\ Len(tunnels) = Len(conns)

\* C13 witness: DialMonitor has returned the resolution error of a node with
\* no monitor pod, after an earlier node was resolved and dialed.
C13_Witness ==
  /\ pc = "sc_dialed"
  /\ "KubeGetPodForNode:err" \in envLog
  /\ conns # <<>>
  /\ callErr # nil

\* C14: resolution follows Session.portForward alone. Direct: the endpoint
\* is the node's IP with port 8451, found by KubeGetNodeIP alone, and no
\* tunnel exists. Tunneled: the endpoint is localhost with the port of the
\* tunnel to the node's pod, and KubeGetNodeIP is never called.
C14_ModeDecidesEndpoint ==
  /\ ~portForward =>
       /\ envLog \cap {"KubeGetPodForNode", "KubePortForward"} = {}
       /\ tunnels = <<>>
       /\ pc = "dial" =>
            /\ srvAddr.host = "nodeip"
            /\ srvAddr.node = cur
            /\ srvAddr.port = 8451
            /\ envLog = {"KubeGetNodeIP"}
  /\ portForward =>
       /\ "KubeGetNodeIP" \notin envLog
       /\ pc = "dial" =>
            /\ srvAddr.host = "localhost"
            /\ srvAddr.node = NoNode
            /\ srvAddr.port = LocalPort(cur)
            /\ envLog = {"KubeGetPodForNode", "KubePortForward"}
            /\ tunnels # <<>>
            /\ tunnels[Len(tunnels)] = cur

\* C14 witness: tunneled resolution of the second node to be dialed has
\* produced a localhost endpoint on the port of its tunnel.
C14_Witness ==
  /\ pc = "dial"
  /\ portForward
  /\ srvAddr.host = "localhost"
  /\ srvAddr.port = LocalPort(cur)
  /\ Len(tunnels) = 2

\* ---- a transfer retried on the same path (RetrySpec)

RetryDone == caller = "retry" /\ pc = "done"
FileData == files[fname].data

\* Whether t is the tail of s.
IsTail(t, s) ==
  /\ Len(t) <= Len(s)
  /\ SubSeq(s, Len(s) - Len(t) + 1, Len(s)) = t

\* C15 (as claimed): after the first successful pass of a transfer that was
\* retried on the same path, the file's tail is that full pass and its total
\* length is the number of bytes written over all attempts.
C15_LengthIsSumOfWritten ==
  RetryDone /\ callErr = nil /\ past.n > 1 =>
    /\ IsTail(Flatten(Received), FileData)
    /\ Len(FileData) = Len(past.written) + Len(Written(trace))

\* C15 (amended): whenever a call of a retried transfer has returned, the file
\* holds what it held before the first attempt, then the bytes written by
\* the earlier attempts, then the bytes written by this one; after the first
\* successful pass its tail is that full pass.
C15_RetryAppends ==
  RetryDone =>
    /\ FileData = past.orig.data \o past.written \o Written(trace)
    /\ callErr = nil =>
         /\ Written(trace) = Flatten(Received)
         /\ IsTail(Flatten(Received), FileData)

\* C15 witness: on a file that had content, a first attempt failed after it
\* wrote a chunk and the second attempt has returned success with two chunks.
C15_Witness ==
  /\ RetryDone
  /\ callErr = nil
  /\ past.n = 2
  /\ past.written # <<>>
  /\ past.orig.data # <<>>
  /\ Len(Received) = 2
  /\ Len(FileData) = Len(past.orig.data) + Len(past.written) +
                     Len(Flatten(Received))

\* ---- the opening cluster query (FanoutSpec)

\* The pod listing of startCollection or the node listing of
\* GetSysInfoNodes has failed.
ListingFailed == envLog \cap {"KubeGetPods:err", "KubeGetNodesAndIps:err"} # {}

\* What a failed opening query leaves as it was.
ListingFrame ==
  UNCHANGED <<collectNodes, files, conns, tunnels, fopen, startAck>>

\* C17: if the query that opens a fan-out fails, the operation returns that
\* error with no node resolved, dialed or called, and from its call to its
\* return the participating set and the local files stay as they were.
C17_ListingFailureFrame ==
  /\ [](ListingFailed =>
         /\ \/ pc = "idle" /\ ret = [op |-> "sc", err |-> <<"pod listing failed">>]
            \/ pc = "done" /\ ret = [op |-> "gs", err |-> <<"node listing failed">>]
         /\ Cardinality(envLog) = 1
         /\ attempted = {}
         /\ conns = <<>>
         /\ tunnels = <<>>)
  /\ [][(pc' \in {"sc_pods", "gs_list"} \/ (ListingFailed' /\ ~ListingFailed))
         => ListingFrame]_vars

\* C17 witness: the pod listing of a second startCollection has failed and
\* the participating set of the first one is in place.
C17_Witness ==
  /\ ScDone
  /\ ListingFailed
  /\ ret.err = <<"pod listing failed">>
  /\ collectNodes # <<>>
  /\ ncalls = 2

\* ---- node-level failures and the participating set (Spec)

\* C16 (as claimed): when a node's GetCollectionResults call fails, nothing
\* is received from a stream for that node and endCollection goes on: no
\* Recv is attempted on the stream of the failed call and the operation does
\* not end in a panic.
C16_RetrieveFailureLocal ==
  stream = "nil" => pc \notin {"panic"}

\* C18 (as claimed): each node occurs at most once in collectNodes, after
\* any sequence of startCollection and endCollection calls.
C18_ParticipantsDistinct ==
  \A i, j \in 1..Len(collectNodes) :
    collectNodes[i] = collectNodes[j] => i = j

\* C19 (as claimed): at most one agent connection is open at any time of a
\* fan-out: the previous node's connection is closed when the next begins.
C19_OneConnAtATime == Len(conns) <= 1

====
